---- MODULE Spec2Model ----
(***************************************************************************)
(* A model of the to-do list service: the data access layer ToDoDAL         *)
(* (backend/src/dal.py) over one MongoDB collection, the FastAPI route      *)
(* handlers and the lifespan context manager (backend/src/server.py).       *)
(*                                                                          *)
(* Every route handler awaits exactly one storage operation, which the      *)
(* backend runs atomically on one document.  Spec runs one request at a     *)
(* time, each handler as one step.  SpecConcurrent splits the handlers of   *)
(* the item mutations at their await: the part before it (ObjectId(..) is   *)
(* evaluated, uuid4() is drawn, the command is sent) and the storage        *)
(* operation with the rest of the handler; the handlers of different        *)
(* clients interleave between the two.                                      *)
(***************************************************************************)
EXTENDS Integers, Sequences, FiniteSets, TLC

\* ------------------------------------------------------------------ bounds
MaxLists == 2      \* insert_one calls in a run; ObjectIds 1..MaxLists
MaxUuids == 2      \* uuid4() draws in a run; item tokens 1..MaxUuids

Oids == 1..MaxLists
Uuids == 1..MaxUuids
\* the clients whose requests can be in flight at once
Clients == {"c1", "c2"}
\* list names: strings as sequences of character codes
Names == {<<1>>, <<1, 2>>}
Labels == {"Milk"}

VARIABLES
    phase,       \* position of lifespan(): "init", "pinging", "serving", "closed", "failed"
    clientOpen,  \* the AsyncIOMotorClient built at server.py:29 is still open
    closeCalls,  \* number of client.close() calls made
    dalSet,      \* app.todo_dal has been assigned (server.py:38)
    coll,        \* the todo_lists collection: coll[k] = <<>> or <<document with _id k>>
    nextOid,     \* next ObjectId insert_one assigns
    nextUuid,    \* next token uuid4() returns
    inflight,    \* inflight[c]: the request whose storage operation client c's handler
                 \* awaits, and whether another request changed its list meanwhile
    last,        \* the handler the latest step completed: request, outcome, collection before it
    deleteLog,   \* deleteLog[k]: what the delete_list calls on list k returned since its
                 \* creation: the first call's result, and the results of the later calls
    roundTrip    \* history of a set_checked_state(L, I, true); set_checked_state(L, I, false) pair

vars == <<phase, clientOpen, closeCalls, dalSet, coll, nextOid, nextUuid,
          inflight, last, deleteLog, roundTrip>>

\* ------------------------------------------------------------ identifiers
\* str(ObjectId): the 24 hex digit form of an ObjectId.
Str(oid) == <<"hex24", oid>>

\* A path parameter that is no 24 hex digit string.
Malformed == {<<"raw", 0>>}

WireIds == {Str(k) : k \in Oids} \cup Malformed

\* bson.ObjectId(id) accepts exactly the 24 hex digit strings ...
ObjectIdValid(wid) == wid[1] = "hex24"

\* ... and is the inverse of str() on them.
ObjectId(wid) == wid[2]

\* ---------------------------------------------------------------- results
None == <<>>
Some(v) == <<v>>

Return(v) == [kind |-> "return", exc |-> "", val |-> v]
Raise(e) == [kind |-> "raise", exc |-> e, val |-> None]
NoOut == [kind |-> "none", exc |-> "", val |-> None]

\* server.py registers no exception handler and no route catches anything:
\* an exception leaving a handler is answered as an internal server error.
ErrorClass(out) == IF out.kind = "raise" THEN "server_error" ELSE "no_error"

\* ------------------------------------------------------------------ models
ToDoListItem_from_doc(item) ==
    [id |-> item.id, label |-> item.label, checked |-> item.checked]

ToDoList_from_doc(doc) ==
    [id |-> Str(doc._id), name |-> doc.name,
     items |-> [i \in 1..Len(doc.items) |-> ToDoListItem_from_doc(doc.items[i])]]

ListSummary_from_doc(doc) ==
    [id |-> Str(doc._id), name |-> doc.name, item_count |-> doc.item_count]

\* ------------------------------------------------------------- requests
Req(op, wid, name, label, item, state, uuid) ==
    [op |-> op, wid |-> wid, name |-> name, label |-> label, item |-> item,
     state |-> state, uuid |-> uuid]

NoReq == Req("idle", Str(0), <<>>, "", 0, FALSE, 0)

Waiting(req) == [req |-> req, overtaken |-> FALSE]

Idle(c) == inflight[c].req.op = "idle"

Quiet == \A c \in Clients : Idle(c)

EmptyColl == [k \in Oids |-> None]

NoLast == [req |-> NoReq, out |-> NoOut, pre |-> EmptyColl, overtaken |-> FALSE]

NoDeletes == [first |-> None, later |-> {}]

\* the history of delete_list calls on a created list, after one more returned result
Logged(log, result) ==
    IF log.first = None THEN [log EXCEPT !.first = Some(result)]
    ELSE [log EXCEPT !.later = @ \cup {result}]

NoRoundTrip == [stage |-> 0, oid |-> 0, item |-> 0, pre |-> None]

\* --------------------------------------------------------------- storage
\* find_one({"_id": oid})
FindOne(db, oid) == db[oid]

\* a delete_one that reports a deletion whether or not a document matched
DeletedCount_always(db, oid) == 1

\* delete_one({"_id": oid}).deleted_count
DeletedCount(db, oid) == IF db[oid] # None THEN 1 ELSE 0

\* a $set of the array in place of the $push
Push_replace(doc, item) == [doc EXCEPT !.items = <<item>>]

\* {"$push": {"items": item}}
Push(doc, item) == [doc EXCEPT !.items = Append(@, item)]

\* the filter {"items.id": item_id}
HasItem(doc, item_id) == \E i \in 1..Len(doc.items) : doc.items[i].id = item_id

\* the array position the positional operator $ stands for: the first match
Position(doc, item_id) ==
    CHOOSE i \in 1..Len(doc.items) :
        /\ doc.items[i].id = item_id
        /\ \A j \in 1..(i - 1) : doc.items[j].id # item_id

\* an update that ignores checked_state and checks the item
SetChecked_true(doc, item_id, checked_state) ==
    [doc EXCEPT !.items[Position(doc, item_id)].checked = TRUE]

\* {"$set": {"items.$.checked": checked_state}}
SetChecked(doc, item_id, checked_state) ==
    [doc EXCEPT !.items[Position(doc, item_id)].checked = checked_state]

\* a {"$pop": {"items": 1}} in place of the $pull
Pull_pop(doc, item_id) ==
    [doc EXCEPT !.items = SubSeq(@, 1, Len(@) - 1)]

\* {"$pull": {"items": {"id": item_id}}}
Pull(doc, item_id) ==
    [doc EXCEPT !.items = SelectSeq(@, LAMBDA it : it.id # item_id)]

\* the projection {"name": 1, "item_count": {"$size": "$items"}}
Projection(doc) == [_id |-> doc._id, name |-> doc.name, item_count |-> Len(doc.items)]

\* the descending order, sort={"name": -1}
RECURSIVE NameLeq_descending(_, _)
NameLeq_descending(a, b) ==
    IF b = <<>> THEN TRUE
    ELSE IF a = <<>> THEN FALSE
    ELSE IF Head(a) # Head(b) THEN Head(a) > Head(b)
    ELSE NameLeq_descending(Tail(a), Tail(b))

\* string order of two names (sequences of character codes)
RECURSIVE NameLeq(_, _)
NameLeq(a, b) ==
    IF a = <<>> THEN TRUE
    ELSE IF b = <<>> THEN FALSE
    ELSE IF Head(a) # Head(b) THEN Head(a) < Head(b)
    ELSE NameLeq(Tail(a), Tail(b))

Stored(db) == {k \in Oids : db[k] # None}

\* find({}, sort={"name": 1}): the stored documents, each once, by ascending
\* name; documents of equal name come in either order.
FindSorted(db) ==
    {s \in [1..Cardinality(Stored(db)) -> Stored(db)] :
        /\ \A i, j \in DOMAIN s : i # j => s[i] # s[j]
        /\ \A i, j \in DOMAIN s : i < j => NameLeq(db[s[i]][1].name, db[s[j]][1].name)}

\* ------------------------------------------------------------- ToDoDAL
\* Each method from its storage operation on: the collection it leaves and
\* what it returns or raises.  ObjectId(id) has been evaluated by then.
Result(db, out) == [db |-> db, out |-> out]

\* the lists [i async for i in list_todo_lists()] can be
ToDoDAL_list_todo_lists(db) ==
    {Result(db, Return(Some([i \in DOMAIN s |-> ListSummary_from_doc(Projection(db[s[i]][1]))]))) :
        s \in FindSorted(db)}

ToDoDAL_create_todo_list(db, inserted_id, name) ==
    Result([db EXCEPT ![inserted_id] = Some([_id |-> inserted_id, name |-> name, items |-> <<>>])],
           Return(Some(Str(inserted_id))))

\* from_doc(None) subscripts None: a TypeError
ToDoDAL_get_todo_list(db, oid) ==
    LET doc == FindOne(db, oid) IN
    Result(db, IF doc = None THEN Raise("TypeError")
               ELSE Return(Some(ToDoList_from_doc(doc[1]))))

ToDoDAL_delete_todo_list(db, oid) ==
    Result([db EXCEPT ![oid] = None], Return(Some(DeletedCount(db, oid) = 1)))

\* find_one_and_update(filter, update, return_document=AFTER): the document
\* after the update, or None when the filter matches no document
ToDoDAL_create_item(db, oid, label, uuid) ==
    LET doc == FindOne(db, oid)
        after == Push(doc[1], [id |-> uuid, label |-> label, checked |-> FALSE]) IN
    IF doc = None THEN Result(db, Return(None))
    ELSE Result([db EXCEPT ![oid] = Some(after)], Return(Some(ToDoList_from_doc(after))))

\* a filter on _id alone: a list without the item comes back unchanged
ToDoDAL_set_checked_state_by_list(db, oid, item_id, checked_state) ==
    LET doc == FindOne(db, oid) IN
    IF doc = None THEN Result(db, Return(None))
    ELSE IF ~HasItem(doc[1], item_id) THEN Result(db, Return(Some(ToDoList_from_doc(doc[1]))))
    ELSE Result([db EXCEPT ![oid] = Some(SetChecked(doc[1], item_id, checked_state))],
                Return(Some(ToDoList_from_doc(SetChecked(doc[1], item_id, checked_state)))))

\* return_document left at its default, ReturnDocument.BEFORE
ToDoDAL_set_checked_state_before(db, oid, item_id, checked_state) ==
    LET doc == FindOne(db, oid) IN
    IF doc = None \/ ~HasItem(doc[1], item_id) THEN Result(db, Return(None))
    ELSE Result([db EXCEPT ![oid] = Some(SetChecked(doc[1], item_id, checked_state))],
                Return(Some(ToDoList_from_doc(doc[1]))))

ToDoDAL_set_checked_state(db, oid, item_id, checked_state) ==
    LET doc == FindOne(db, oid)
        after == SetChecked(doc[1], item_id, checked_state) IN
    IF doc = None \/ ~HasItem(doc[1], item_id) THEN Result(db, Return(None))
    ELSE Result([db EXCEPT ![oid] = Some(after)], Return(Some(ToDoList_from_doc(after))))

ToDoDAL_delete_item(db, oid, item_id) ==
    LET doc == FindOne(db, oid)
        after == Pull(doc[1], item_id) IN
    IF doc = None THEN Result(db, Return(None))
    ELSE Result([db EXCEPT ![oid] = Some(after)], Return(Some(ToDoList_from_doc(after))))

\* ------------------------------------------------------------- lifespan
Init ==
    /\ phase = "init"
    /\ clientOpen = FALSE
    /\ closeCalls = 0
    /\ dalSet = FALSE
    /\ coll = EmptyColl
    /\ nextOid = 1
    /\ nextUuid = 1
    /\ inflight = [c \in Clients |-> Waiting(NoReq)]
    /\ last = NoLast
    /\ deleteLog = [k \in Oids |-> NoDeletes]
    /\ roundTrip = NoRoundTrip

life == <<phase, clientOpen, closeCalls, dalSet>>

service == <<coll, nextOid, nextUuid, inflight, last, deleteLog, roundTrip>>

\* client = AsyncIOMotorClient(MONGODB_URI); the ping is awaited
lifespan_connect ==
    /\ phase = "init"
    /\ clientOpen' = TRUE
    /\ phase' = "pinging"
    /\ UNCHANGED <<closeCalls, dalSet, service>>

\* the ping answers {"ok": 1}: the DAL is attached and the application runs
lifespan_ping_ok ==
    /\ phase = "pinging"
    /\ dalSet' = TRUE
    /\ phase' = "serving"
    /\ UNCHANGED <<clientOpen, closeCalls, service>>

\* the ping answers with ok # 1 (raise Exception, server.py:35) or
\* database.command itself raises: the exception leaves lifespan() before
\* its yield, and nothing after the yield runs
lifespan_ping_fails ==
    /\ phase = "pinging"
    /\ phase' = "failed"
    /\ UNCHANGED <<clientOpen, closeCalls, dalSet, service>>

\* shutdown, once no request is in flight: client.close()
lifespan_shutdown ==
    /\ phase = "serving"
    /\ Quiet
    /\ last = NoLast
    /\ clientOpen' = FALSE
    /\ closeCalls' = closeCalls + 1
    /\ phase' = "closed"
    /\ UNCHANGED <<dalSet, service>>

\* ------------------------------------------------------- route handlers
\* The handler from the request to its response, as one step; the next
\* request is taken once the response has gone out.
Serving == phase = "serving" /\ dalSet /\ last = NoLast

\* the handler ends with outcome r.out, leaving the collection r.db
Responds(req, r) ==
    /\ coll' = r.db
    /\ last' = [req |-> req, out |-> r.out, pre |-> coll, overtaken |-> FALSE]

\* ObjectId(id) raises InvalidId before anything is sent to the backend
InvalidId(req) == Responds(req, Result(coll, Raise("InvalidId")))

\* GET /api/lists
get_all_lists ==
    /\ Serving
    /\ \E r \in ToDoDAL_list_todo_lists(coll) :
         Responds(Req("get_all_lists", Str(0), <<>>, "", 0, FALSE, 0), r)
    /\ UNCHANGED <<nextOid, nextUuid, inflight, deleteLog, roundTrip, life>>

\* POST /api/lists
create_todo_list(name) ==
    /\ Serving
    /\ nextOid <= MaxLists
    /\ Responds(Req("create_todo_list", Str(0), name, "", 0, FALSE, 0),
                ToDoDAL_create_todo_list(coll, nextOid, name))
    /\ nextOid' = nextOid + 1
    /\ roundTrip' = NoRoundTrip
    /\ UNCHANGED <<nextUuid, inflight, deleteLog, life>>

\* GET /api/lists/{list_id}
get_list(list_id) ==
    /\ Serving
    /\ LET req == Req("get_list", list_id, <<>>, "", 0, FALSE, 0) IN
       IF ObjectIdValid(list_id)
       THEN Responds(req, ToDoDAL_get_todo_list(coll, ObjectId(list_id)))
       ELSE InvalidId(req)
    /\ UNCHANGED <<nextOid, nextUuid, inflight, deleteLog, roundTrip, life>>

\* DELETE /api/lists/{list_id}
delete_list(list_id) ==
    /\ Serving
    /\ LET req == Req("delete_list", list_id, <<>>, "", 0, FALSE, 0)
           oid == ObjectId(list_id) IN
       IF ObjectIdValid(list_id)
       THEN /\ LET r == ToDoDAL_delete_todo_list(coll, oid) IN
               /\ Responds(req, r)
               /\ deleteLog' = IF oid < nextOid
                               THEN [deleteLog EXCEPT ![oid] = Logged(@, r.out.val[1])]
                               ELSE deleteLog
            /\ roundTrip' = NoRoundTrip
       ELSE InvalidId(req) /\ UNCHANGED <<deleteLog, roundTrip>>
    /\ UNCHANGED <<nextOid, nextUuid, inflight, life>>

\* POST /api/lists/{list_id}/items/ : uuid4() is drawn after ObjectId(id)
create_item(list_id, label) ==
    /\ Serving
    /\ nextUuid <= MaxUuids
    /\ IF ObjectIdValid(list_id)
       THEN /\ Responds(Req("create_item", list_id, <<>>, label, 0, FALSE, nextUuid),
                        ToDoDAL_create_item(coll, ObjectId(list_id), label, nextUuid))
            /\ nextUuid' = nextUuid + 1
            /\ roundTrip' = NoRoundTrip
       ELSE /\ InvalidId(Req("create_item", list_id, <<>>, label, 0, FALSE, 0))
            /\ UNCHANGED <<nextUuid, roundTrip>>
    /\ UNCHANGED <<nextOid, inflight, deleteLog, life>>

\* DELETE /api/lists/{list_id}/items/{item_id}
delete_item(list_id, item_id) ==
    /\ Serving
    /\ LET req == Req("delete_item", list_id, <<>>, "", item_id, FALSE, 0) IN
       IF ObjectIdValid(list_id)
       THEN /\ Responds(req, ToDoDAL_delete_item(coll, ObjectId(list_id), item_id))
            /\ roundTrip' = NoRoundTrip
       ELSE InvalidId(req) /\ UNCHANGED roundTrip
    /\ UNCHANGED <<nextOid, nextUuid, inflight, deleteLog, life>>

\* what a set_checked_state that ran adds to the round trip history
RoundTripAfter(oid, item_id, checked_state, r) ==
    IF r.out.val = None THEN NoRoundTrip
    ELSE IF checked_state
    THEN [stage |-> 1, oid |-> oid, item |-> item_id,
          pre |-> Some(ToDoList_from_doc(coll[oid][1]))]
    ELSE IF roundTrip.stage = 1 /\ roundTrip.oid = oid /\ roundTrip.item = item_id
    THEN [roundTrip EXCEPT !.stage = 2]
    ELSE NoRoundTrip

\* PATCH /api/lists/{list_id}/checked_state
set_checked_state(list_id, item_id, checked_state) ==
    /\ Serving
    /\ LET req == Req("set_checked_state", list_id, <<>>, "", item_id, checked_state, 0)
           oid == ObjectId(list_id) IN
       IF ObjectIdValid(list_id)
       THEN LET r == ToDoDAL_set_checked_state(coll, oid, item_id, checked_state) IN
            /\ Responds(req, r)
            /\ roundTrip' = RoundTripAfter(oid, item_id, checked_state, r)
       ELSE InvalidId(req) /\ UNCHANGED roundTrip
    /\ UNCHANGED <<nextOid, nextUuid, inflight, deleteLog, life>>

\* the response goes out to the client
deliver ==
    /\ last # NoLast
    /\ last' = NoLast
    /\ UNCHANGED <<coll, nextOid, nextUuid, inflight, deleteLog, roundTrip, life>>

Next ==
    \/ lifespan_connect
    \/ lifespan_ping_ok
    \/ lifespan_ping_fails
    \/ lifespan_shutdown
    \/ get_all_lists
    \/ \E name \in Names : create_todo_list(name)
    \/ \E list_id \in WireIds : get_list(list_id)
    \/ \E list_id \in WireIds : delete_list(list_id)
    \/ \E list_id \in WireIds, label \in Labels : create_item(list_id, label)
    \/ \E list_id \in WireIds, item_id \in Uuids : delete_item(list_id, item_id)
    \/ \E list_id \in WireIds, item_id \in Uuids, checked_state \in BOOLEAN :
         set_checked_state(list_id, item_id, checked_state)
    \/ deliver

Spec == Init /\ [][Next]_vars

\* ------------------------------------------------- concurrent requests
\* The handlers of the item mutations, split at their await.
Accepting(c) == phase = "serving" /\ dalSet /\ Idle(c) /\ last = NoLast

\* the handler has sent its storage command and is suspended
Awaits(c, req) ==
    /\ inflight' = [inflight EXCEPT ![c] = Waiting(req)]
    /\ UNCHANGED <<coll, last>>

Resuming(c, op) == phase = "serving" /\ inflight[c].req.op = op /\ last = NoLast

\* the backend has run client c's operation: the handler returns r.out; the
\* requests still in flight for the same list are marked when it changed
Resumes(c, r) ==
    /\ coll' = r.db
    /\ last' = [req |-> inflight[c].req, out |-> r.out, pre |-> coll,
                overtaken |-> inflight[c].overtaken]
    /\ inflight' = [d \in Clients |->
                      IF d = c THEN Waiting(NoReq)
                      ELSE IF ~Idle(d) /\ inflight[d].req.wid = inflight[c].req.wid /\ r.db # coll
                      THEN [inflight[d] EXCEPT !.overtaken = TRUE]
                      ELSE inflight[d]]

await_create_item(c, list_id, label) ==
    /\ Accepting(c)
    /\ nextUuid <= MaxUuids
    /\ IF ObjectIdValid(list_id)
       THEN /\ Awaits(c, Req("create_item", list_id, <<>>, label, 0, FALSE, nextUuid))
            /\ nextUuid' = nextUuid + 1
       ELSE /\ InvalidId(Req("create_item", list_id, <<>>, label, 0, FALSE, 0))
            /\ UNCHANGED <<nextUuid, inflight>>
    /\ UNCHANGED <<nextOid, deleteLog, roundTrip, life>>

resume_create_item(c) ==
    /\ Resuming(c, "create_item")
    /\ LET req == inflight[c].req IN
       Resumes(c, ToDoDAL_create_item(coll, ObjectId(req.wid), req.label, req.uuid))
    /\ UNCHANGED <<nextOid, nextUuid, deleteLog, roundTrip, life>>

await_set_checked_state(c, list_id, item_id, checked_state) ==
    /\ Accepting(c)
    /\ LET req == Req("set_checked_state", list_id, <<>>, "", item_id, checked_state, 0) IN
       IF ObjectIdValid(list_id) THEN Awaits(c, req)
       ELSE InvalidId(req) /\ UNCHANGED inflight
    /\ UNCHANGED <<nextOid, nextUuid, deleteLog, roundTrip, life>>

resume_set_checked_state(c) ==
    /\ Resuming(c, "set_checked_state")
    /\ LET req == inflight[c].req IN
       Resumes(c, ToDoDAL_set_checked_state(coll, ObjectId(req.wid), req.item, req.state))
    /\ UNCHANGED <<nextOid, nextUuid, deleteLog, roundTrip, life>>

await_delete_item(c, list_id, item_id) ==
    /\ Accepting(c)
    /\ LET req == Req("delete_item", list_id, <<>>, "", item_id, FALSE, 0) IN
       IF ObjectIdValid(list_id) THEN Awaits(c, req)
       ELSE InvalidId(req) /\ UNCHANGED inflight
    /\ UNCHANGED <<nextOid, nextUuid, deleteLog, roundTrip, life>>

resume_delete_item(c) ==
    /\ Resuming(c, "delete_item")
    /\ LET req == inflight[c].req IN
       Resumes(c, ToDoDAL_delete_item(coll, ObjectId(req.wid), req.item))
    /\ UNCHANGED <<nextOid, nextUuid, deleteLog, roundTrip, life>>

NextConcurrent ==
    \/ lifespan_connect
    \/ lifespan_ping_ok
    \/ lifespan_ping_fails
    \/ lifespan_shutdown
    \/ \E name \in Names : create_todo_list(name)
    \/ \E c \in Clients, list_id \in WireIds, label \in Labels :
         await_create_item(c, list_id, label)
    \/ \E c \in Clients, list_id \in WireIds, item_id \in Uuids, checked_state \in BOOLEAN :
         await_set_checked_state(c, list_id, item_id, checked_state)
    \/ \E c \in Clients, list_id \in WireIds, item_id \in Uuids :
         await_delete_item(c, list_id, item_id)
    \/ \E c \in Clients : resume_create_item(c)
    \/ \E c \in Clients : resume_set_checked_state(c)
    \/ \E c \in Clients : resume_delete_item(c)
    \/ deliver

SpecConcurrent == Init /\ [][NextConcurrent]_vars

\* --------------------------------------------------------------- claims
\* what the latest handler was asked, and the list it addressed before it ran
LastOp == last.req.op
LastOid == ObjectId(last.req.wid)
LastValid == ObjectIdValid(last.req.wid)
Before == last.pre[LastOid]
Returned == last.out.val[1]
ItemIds(items) == {items[i].id : i \in 1..Len(items)}

\* C1: create_item on an existing list returns the list's previous items with
\* exactly one item appended, which has the label given, checked = false and
\* an identifier no item of the list had; and in every state the items of a
\* stored list have pairwise different identifiers.
C1_CreateItemAppendsFresh ==
    /\ (LastOp = "create_item" /\ LastValid /\ Before # None) =>
         /\ last.out.kind = "return" /\ last.out.val # None
         /\ LET old == ToDoList_from_doc(Before[1]).items
                new == Returned.items IN
            /\ Len(new) = Len(old) + 1
            /\ \A i \in 1..Len(old) : new[i] = old[i]
            /\ new[Len(new)].label = last.req.label
            /\ new[Len(new)].checked = FALSE
            /\ new[Len(new)].id \notin ItemIds(old)
            /\ coll[LastOid] # None /\ ToDoList_from_doc(coll[LastOid][1]) = Returned
    /\ \A k \in Stored(coll) : \A i, j \in 1..Len(coll[k][1].items) :
         i # j => coll[k][1].items[i].id # coll[k][1].items[j].id

\* create_item has appended a second item to a list
C1_Witness ==
    /\ LastOp = "create_item" /\ LastValid /\ Before # None
    /\ Len(Before[1].items) = 1
    /\ last.out.val # None /\ Len(Returned.items) = 2

\* C2: of the delete_list calls on an identifier create_todo_list returned,
\* the first returns true and every later one returns false, and none of them
\* raises.
C2_DeleteTrueExactlyOnce ==
    /\ \A k \in Oids : deleteLog[k].first # None =>
         /\ k < nextOid
         /\ deleteLog[k].first = Some(TRUE)
         /\ TRUE \notin deleteLog[k].later
    /\ (LastOp = "delete_list" /\ LastValid) =>
         /\ last.out.kind = "return"
         /\ LastOid < nextOid => deleteLog[LastOid].first # None
         /\ Returned = (Before # None)

\* a list was created, deleted, and deleted again
C2_Witness ==
    \E k \in Oids : deleteLog[k].first = Some(TRUE) /\ FALSE \in deleteLog[k].later

\* the outcome the specification calls NotFound
NotFoundOutcome(out) ==
    \/ out.kind = "return" /\ out.val = None
    \/ out.kind = "raise" /\ out.exc = "NotFound"

\* C3: get_todo_list on a well-formed identifier that matches no stored list
\* ends with the NotFound outcome, not with an unclassified failure or a
\* server error.
C3_GetAbsentIsNotFound ==
    (LastOp = "get_list" /\ LastValid /\ Before = None) =>
        /\ NotFoundOutcome(last.out)
        /\ ErrorClass(last.out) # "server_error"

\* the handlers that take a list identifier
TakesListId == {"get_list", "delete_list", "create_item", "set_checked_state", "delete_item"}

\* C4: an operation given a malformed list identifier fails with
\* InvalidArgument, surfaced as a client error, and leaves the stored lists
\* unchanged.
C4_MalformedIsClientError ==
    (LastOp \in TakesListId /\ ~LastValid) =>
        /\ last.out.kind = "raise" /\ last.out.exc = "InvalidId"
        /\ ErrorClass(last.out) = "client_error"
        /\ coll = last.pre

Kept(items, item_id) == {i \in 1..Len(items) : items[i].id # item_id}

\* C6: delete_item on an existing list returns the list with the items
\* of that identifier filtered out and the others kept in order, under the
\* same name; when no item has the identifier the list and the collection
\* are as before, and deleting once more changes nothing.
C6_DeleteItemFilters ==
    (LastOp = "delete_item" /\ LastValid /\ Before # None) =>
        /\ last.out.kind = "return" /\ last.out.val # None
        /\ LET old == ToDoList_from_doc(Before[1])
               new == Returned
               kept == Kept(old.items, last.req.item) IN
           /\ new.id = old.id /\ new.name = old.name
           /\ Len(new.items) = Cardinality(kept)
           /\ \A i \in kept :
                new.items[Cardinality({j \in kept : j <= i})] = old.items[i]
           /\ last.req.item \notin ItemIds(old.items) => new = old /\ coll = last.pre
           /\ coll[LastOid] # None /\ ToDoList_from_doc(coll[LastOid][1]) = new
           /\ ToDoDAL_delete_item(coll, LastOid, last.req.item) = Result(coll, last.out)
        /\ \A k \in Oids \ {LastOid} : coll[k] = last.pre[k]

\* delete_item named an item that a stored list with items does not hold
C6_Witness ==
    /\ LastOp = "delete_item" /\ LastValid /\ Before # None
    /\ Before[1].items # <<>>
    /\ last.req.item \notin ItemIds(Before[1].items)
    /\ last.out.val # None

\* C7 as stated: set_checked_state(L, I, true) followed by
\* set_checked_state(L, I, false), nothing written in between, leaves the
\* list as it was before the first call.
C7_RoundTripRestores ==
    roundTrip.stage = 2 =>
        Some(ToDoList_from_doc(coll[roundTrip.oid][1])) = roundTrip.pre

\* the item of the round trip was unchecked before the first call
RoundTripFromUnchecked ==
    \E i \in 1..Len(roundTrip.pre[1].items) :
        /\ roundTrip.pre[1].items[i].id = roundTrip.item
        /\ ~roundTrip.pre[1].items[i].checked

\* C7 amended: the round trip leaves the list as it was before the first call
\* when item I was unchecked before it.
C7_RoundTripFromUnchecked ==
    (roundTrip.stage = 2 /\ RoundTripFromUnchecked) =>
        Some(ToDoList_from_doc(coll[roundTrip.oid][1])) = roundTrip.pre

\* a round trip on an unchecked item of a list of two items has completed
C7_Witness ==
    /\ roundTrip.stage = 2
    /\ RoundTripFromUnchecked
    /\ Len(roundTrip.pre[1].items) = 2

\* name a comes no later than name b in string order: a is a prefix of b, or
\* a has the smaller character where they first differ
NotAfter(a, b) ==
    \E n \in 0..Len(a) :
        /\ n <= Len(b)
        /\ \A i \in 1..n : a[i] = b[i]
        /\ n = Len(a) \/ (n < Len(b) /\ a[n + 1] < b[n + 1])

\* C8: list_todo_lists yields one summary per stored list, by ascending name,
\* and each summary's item_count is the number of items get_todo_list
\* returns for that list.
C8_SummariesSortedAndCounted ==
    LastOp = "get_all_lists" =>
        /\ last.out.kind = "return" /\ last.out.val # None
        /\ LET sums == Returned IN
           /\ Len(sums) = Cardinality(Stored(coll))
           /\ {sums[i].id : i \in 1..Len(sums)} = {Str(k) : k \in Stored(coll)}
           /\ \A i, j \in 1..Len(sums) : i < j => NotAfter(sums[i].name, sums[j].name)
           /\ \A i \in 1..Len(sums) :
                LET got == ToDoDAL_get_todo_list(coll, ObjectId(sums[i].id)).out IN
                /\ got.kind = "return"
                /\ sums[i].name = got.val[1].name
                /\ sums[i].item_count = Len(got.val[1].items)

\* two lists are listed; the one created second has the smaller name and an item
C8_Witness ==
    /\ LastOp = "get_all_lists"
    /\ Len(Returned) = 2
    /\ Returned[1].id = Str(2)
    /\ Returned[1].name # Returned[2].name
    /\ Returned[1].item_count = 1

\* C10: once the lifespan has ended, by shutdown or by a failed startup
\* check, the connection has been closed exactly once; and after a failed
\* check no handler has run.
C10_ConnectionReleasedOnce ==
    /\ phase \in {"closed", "failed"} => closeCalls = 1 /\ ~clientOpen
    /\ phase = "failed" => ~dalSet /\ last = NoLast /\ coll = EmptyColl

\* the items of a list after one mutation applied to it alone
ItemsAfter(req, items) ==
    IF req.op = "create_item"
    THEN items \o <<[id |-> req.uuid, label |-> req.label, checked |-> FALSE]>>
    ELSE IF req.op = "set_checked_state"
    THEN [i \in 1..Len(items) |->
            IF items[i].id = req.item
            THEN [id |-> items[i].id, label |-> items[i].label, checked |-> req.state]
            ELSE items[i]]
    ELSE SelectSeq(items, LAMBDA it : it.id # req.item)

\* whether the mutation finds its list (and, to set a checked state, its item)
Matches(req, db) ==
    /\ db[ObjectId(req.wid)] # None
    /\ req.op = "set_checked_state" =>
         req.item \in ItemIds(db[ObjectId(req.wid)][1].items)

\* C9: with requests in flight at once, every item mutation takes effect in
\* one step on the collection as it is at that moment: the collection after
\* it is the one before it with that mutation alone applied to its list, so
\* the stored lists are those of the mutations run one after another in the
\* order of their storage operations and none is lost; and the call returns
\* the list as stored right after its own update.
C9_MutationsAreAtomic ==
    (LastOp \in {"create_item", "set_checked_state", "delete_item"} /\ LastValid) =>
        /\ last.out.kind = "return"
        /\ \A k \in Oids \ {LastOid} : coll[k] = last.pre[k]
        /\ IF Matches(last.req, last.pre)
           THEN /\ coll[LastOid] # None
                /\ coll[LastOid][1]._id = LastOid
                /\ coll[LastOid][1].name = Before[1].name
                /\ coll[LastOid][1].items = ItemsAfter(last.req, Before[1].items)
                /\ last.out.val = Some(ToDoList_from_doc(coll[LastOid][1]))
           ELSE coll = last.pre /\ last.out.val = None

\* a set_checked_state was in flight while another client's create_item
\* appended to the same list, and the list it returns holds both the appended
\* item and its own change
C9_Witness ==
    /\ LastOp = "set_checked_state" /\ last.req.state
    /\ last.overtaken
    /\ last.out.val # None
    /\ Len(Returned.items) = 2
    /\ \E i, j \in 1..2 :
         /\ Returned.items[i].id = last.req.item /\ Returned.items[i].checked
         /\ Returned.items[j].id > last.req.item
====
